---- MODULE Spec2Model ----
(***************************************************************************)
(* Logistics AI Assistant (src/app.py): the chat orchestrator with its     *)
(* keyword fallback, the two shipping operations, and the Streamlit page   *)
(* handlers that own the session's chat history.                           *)
(*                                                                         *)
(* A text is a sequence of string pieces and concatenation is \o.  What    *)
(* the user types is a sequence of one-character pieces, so that           *)
(* str.lower() and the substring test "topic in text" are computed         *)
(* character by character.  Literals of the program that are only ever     *)
(* copied (canned answers, fixed messages) are one piece each.             *)
(***************************************************************************)
EXTENDS Integers, Sequences, FiniteSets, TLC

VARIABLES
    GROQ_API_KEY,     \* app.py:24, os.getenv: PyNone or a string
    SHIPPO_API_KEY,   \* app.py:23
    chat_history,     \* st.session_state.chat_history
    page,             \* the sidebar radio
    tool_choice,      \* the selectbox of the Tools page
    op,               \* the handler or function that ran last
    args,             \* its inputs
    net_calls,        \* the HTTP requests it issued, in order
    result            \* how it ended: [kind, value]

vars == <<GROQ_API_KEY, SHIPPO_API_KEY, chat_history, page, tool_choice,
          op, args, net_calls, result>>

-----------------------------------------------------------------------------
(* Bounds of the model *)

\* longest session history a Send may produce (the window overflows from 6 on)
MaxHistory == 7
\* chunks concatenated into one input of the fallback harness
MaxChunks == 2
\* longest history handed to get_enhanced_chatbot_response by the harness
MaxFnHistory == 7
\* longest rates array of a shipping-backend response
MaxRates == 7

-----------------------------------------------------------------------------
(* Python values *)

\* None, as os.getenv returns it for an unset variable
PyNone == "<None>"

\* truth value of an Optional[str]: None and "" are falsy
Truthy(v) == v \notin {PyNone, ""}

\* str.lower() of one character
LowerChar(c) ==
    CASE
         c = "A" -> "a"
      [] c = "B" -> "b"
      [] c = "C" -> "c"
      [] c = "D" -> "d"
      [] c = "E" -> "e"
      [] c = "F" -> "f"
      [] c = "G" -> "g"
      [] c = "H" -> "h"
      [] c = "I" -> "i"
      [] c = "J" -> "j"
      [] c = "K" -> "k"
      [] c = "L" -> "l"
      [] c = "M" -> "m"
      [] c = "N" -> "n"
      [] c = "O" -> "o"
      [] c = "P" -> "p"
      [] c = "Q" -> "q"
      [] c = "R" -> "r"
      [] c = "S" -> "s"
      [] c = "T" -> "t"
      [] c = "U" -> "u"
      [] c = "V" -> "v"
      [] c = "W" -> "w"
      [] c = "X" -> "x"
      [] c = "Y" -> "y"
      [] c = "Z" -> "z"
      [] OTHER -> c

\* str.upper() of one character; used to build mixed-case inputs
UpperChar(c) ==
    CASE
         c = "a" -> "A"
      [] c = "b" -> "B"
      [] c = "c" -> "C"
      [] c = "d" -> "D"
      [] c = "e" -> "E"
      [] c = "f" -> "F"
      [] c = "g" -> "G"
      [] c = "h" -> "H"
      [] c = "i" -> "I"
      [] c = "j" -> "J"
      [] c = "k" -> "K"
      [] c = "l" -> "L"
      [] c = "m" -> "M"
      [] c = "n" -> "N"
      [] c = "o" -> "O"
      [] c = "p" -> "P"
      [] c = "q" -> "Q"
      [] c = "r" -> "R"
      [] c = "s" -> "S"
      [] c = "t" -> "T"
      [] c = "u" -> "U"
      [] c = "v" -> "V"
      [] c = "w" -> "W"
      [] c = "x" -> "X"
      [] c = "y" -> "Y"
      [] c = "z" -> "Z"
      [] OTHER -> c

\* a lower() that forgets to fold the case
LowerIdentity(s) == s

\* str.lower()
Lower(s) == [i \in 1..Len(s) |-> LowerChar(s[i])]

Upper(s) == [i \in 1..Len(s) |-> UpperChar(s[i])]

\* Python's "sub in s" for str
Contains(sub, s) ==
    \E i \in 1..(Len(s) - Len(sub) + 1) : SubSeq(s, i, i + Len(sub) - 1) = sub

\* s[-n:] for n > 0
LastN(s, n) == IF Len(s) <= n THEN s ELSE SubSeq(s, Len(s) - n + 1, Len(s))

\* s[:n]
FirstN(s, n) == IF Len(s) <= n THEN s ELSE SubSeq(s, 1, n)

-----------------------------------------------------------------------------
(* get_fallback_response, app.py:73-91 *)

Topic_shipping_rates ==
    <<"s","h","i","p","p","i","n","g"," ","r","a","t","e","s">>
Topic_track_shipment ==
    <<"t","r","a","c","k"," ","s","h","i","p","m","e","n","t">>
Topic_trucking ==
    <<"t","r","u","c","k","i","n","g">>
Topic_freight_forwarding ==
    <<"f","r","e","i","g","h","t"," ","f","o","r","w","a","r","d","i","n","g">>
Topic_customs ==
    <<"c","u","s","t","o","m","s">>
Topic_packaging ==
    <<"p","a","c","k","a","g","i","n","g">>
Topic_insurance ==
    <<"i","n","s","u","r","a","n","c","e">>
Topic_international_shipping ==
    <<"i","n","t","e","r","n","a","t","i","o","n","a","l"," ","s","h","i","p","p","i","n","g">>
Topic_warehousing ==
    <<"w","a","r","e","h","o","u","s","i","n","g">>
Topic_last_mile_delivery ==
    <<"l","a","s","t","-","m","i","l","e"," ","d","e","l","i","v","e","r","y">>

logistics_topics ==
    <<
       [topic |-> Topic_shipping_rates,
        response |-> <<"Shipping rates vary depending on factors such as package weight, dimensions, destination, and service level. For accurate rates, please use our Shipping Rates Calculator tool in the Tools section.">>],
       [topic |-> Topic_track_shipment,
        response |-> <<"To track a shipment, you'll need the tracking number and carrier information. Please use our Shipment Tracker tool in the Tools section for real-time tracking updates.">>],
       [topic |-> Topic_trucking,
        response |-> <<"Trucking is a crucial part of logistics, involving the transportation of goods by road. It includes various types of services such as full truckload (FTL), less than truckload (LTL), and specialized freight.">>],
       [topic |-> Topic_freight_forwarding,
        response |-> <<"Freight forwarding involves organizing shipments from the manufacturer or producer to the final point of distribution or consumer.">>],
       [topic |-> Topic_customs,
        response |-> <<"Customs procedures are essential for international shipping. They involve declaring goods, paying duties and taxes, and complying with import/export regulations.">>],
       [topic |-> Topic_packaging,
        response |-> <<"Proper packaging is crucial for protecting your items during shipping. Use appropriate materials like bubble wrap, packing peanuts, or air pillows.">>],
       [topic |-> Topic_insurance,
        response |-> <<"Shipping insurance provides protection against loss, damage, or theft of your packages.">>],
       [topic |-> Topic_international_shipping,
        response |-> <<"International shipping involves additional considerations such as customs documentation, duties and taxes, restricted items, and longer transit times.">>],
       [topic |-> Topic_warehousing,
        response |-> <<"Warehousing is the storage of goods before they are shipped to customers.">>],
       [topic |-> Topic_last_mile_delivery,
        response |-> <<"Last-mile delivery refers to the final step of the delivery process from a distribution center to the end customer.">>]
    >>

DefaultResponse ==
    <<"I'm here to help with all your logistics needs, including shipping, trucking, and freight forwarding. Could you please provide more specific information about what you'd like to know? Feel free to ask about topics such as shipping rates, tracking, customs, packaging, insurance, or any other logistics-related questions.">>

\* the for loop of app.py:87-89 from entry i of the table on
RECURSIVE FallbackFrom(_, _)
FallbackFrom(i, user_input) ==
    IF i > Len(logistics_topics)
    THEN DefaultResponse
    ELSE IF Contains(logistics_topics[i].topic, Lower(user_input))
         THEN logistics_topics[i].response
         ELSE FallbackFrom(i + 1, user_input)

get_fallback_response(user_input) == FallbackFrom(1, user_input)

-----------------------------------------------------------------------------
(* get_enhanced_chatbot_response, app.py:42-71 *)

\* the slice bound of chat_history[-5:]
HistoryWindow == 5

SystemMessage ==
    [role |-> "system",
     content |-> <<"You are an expert AI assistant specializing in logistics, shipping, trucking, and freight forwarding. Provide accurate, helpful, and concise information to user queries. Always maintain a friendly and professional tone.">>]

\* a window that keeps the oldest messages instead of the newest
OldestWindow(history) == FirstN(history, HistoryWindow)

\* chat_history[-5:]
RecentWindow(history) == LastN(history, HistoryWindow)

\* the messages list of app.py:51-56
BuildMessages(user_input, history) ==
    LET window == RecentWindow(history)
    IN  <<SystemMessage>>
        \o [i \in 1..Len(window) |->
               [role |-> window[i].role, content |-> window[i].content]]
        \o <<[role |-> "user", content |-> user_input]>>

\* the POST of app.py:58-66
GroqCall(messages) ==
    [api |-> "groq", model |-> "mixtral-8x7b-32768", messages |-> messages,
     max_tokens |-> 500, temperature |-> "0.7"]

\* What one HTTP exchange can do.  requests.post raises ConnectionError or
\* Timeout, raise_for_status raises HTTPError on a non-2xx status, and
\* response.json() on a body that is not JSON raises
\* requests.exceptions.JSONDecodeError (requests >= 2.27, a
\* RequestException) or a plain ValueError (older releases); the source pins
\* no release, so both are outcomes.
RequestExceptions == {"ConnectionError", "Timeout", "HTTPError", "JSONDecodeError"}

FailureKinds == RequestExceptions \cup {"ValueError"}

Failures == {[kind |-> k] : k \in FailureKinds}

LLMReplyA == <<"Freight class depends on density.">>
LLMReplyB == <<"LTL means less than truckload.">>

ChatBody(reply) ==
    [id |-> "chatcmpl",
     choices |-> <<[index |-> 0,
                    message |-> [role |-> "assistant", content |-> reply]]>>]

\* 2xx bodies from which choices[0].message.content cannot be read
MalformedChatBodies ==
    { [id |-> "chatcmpl"],
      [id |-> "chatcmpl", choices |-> <<>>],
      [id |-> "chatcmpl", choices |-> <<[index |-> 0]>>],
      [id |-> "chatcmpl",
       choices |-> <<[index |-> 0, message |-> [role |-> "assistant"]]>>] }

ChatOutcomes ==
    Failures
    \cup {[kind |-> "ok", body |-> ChatBody(r)] : r \in {LLMReplyA, LLMReplyB}}
    \cup {[kind |-> "ok", body |-> b] : b \in MalformedChatBodies}

\* response.json()["choices"][0]["message"]["content"], app.py:68
ChatContent(body) ==
    IF "choices" \notin DOMAIN body
    THEN [kind |-> "raise", value |-> <<"KeyError">>]
    ELSE IF Len(body.choices) = 0
    THEN [kind |-> "raise", value |-> <<"IndexError">>]
    ELSE IF "message" \notin DOMAIN body.choices[1]
    THEN [kind |-> "raise", value |-> <<"KeyError">>]
    ELSE IF "content" \notin DOMAIN body.choices[1].message
    THEN [kind |-> "raise", value |-> <<"KeyError">>]
    ELSE [kind |-> "return", value |-> body.choices[1].message.content]

\* a credential check that always passes
GroqConfiguredAlways == TRUE

\* "if not GROQ_API_KEY" of app.py:43, negated
GroqConfigured == Truthy(GROQ_API_KEY)

get_enhanced_chatbot_response(user_input, history, outcome) ==
    IF ~GroqConfigured
    THEN [kind |-> "return", value |-> get_fallback_response(user_input),
          calls |-> <<>>]
    ELSE LET call == GroqCall(BuildMessages(user_input, history))
         IN  IF outcome.kind \in RequestExceptions
             THEN [kind |-> "return",
                   value |-> get_fallback_response(user_input),
                   calls |-> <<call>>]
             ELSE IF outcome.kind = "ValueError"
             THEN [kind |-> "raise", value |-> <<"ValueError">>,
                   calls |-> <<call>>]
             ELSE [kind |-> ChatContent(outcome.body).kind,
                   value |-> ChatContent(outcome.body).value,
                   calls |-> <<call>>]

-----------------------------------------------------------------------------
(* get_shipping_rates, app.py:93-128 *)

\* the slice bound of data["rates"][:5]
TopRatesShown == 5

NL == "\n"

\* JSON null
JsonNull == [null |-> TRUE]

IsNull(v) == "null" \in DOMAIN v

\* str() of a number the form holds in tenths: 10.0, 0.1
PyStr(tenths) == <<tenths \div 10, ".", tenths % 10>>

\* "\n".join(lines)
RECURSIVE JoinLines(_)
JoinLines(lines) ==
    IF Len(lines) = 0 THEN <<>>
    ELSE IF Len(lines) = 1 THEN lines[1]
    ELSE lines[1] \o <<NL>> \o JoinLines(Tail(lines))

RateFields == {"provider", "amount", "duration_terms"}

\* the f-string of app.py:122
RateLine(rate) ==
    <<rate.provider, " - $", rate.amount, " (", rate.duration_terms, ")">>

\* a listing that does not cut the array
AllRates(rates) == rates

\* data["rates"][:5]
TopRates(rates) == FirstN(rates, TopRatesShown)

NoRatesMessage ==
    <<"No rates found for the given shipment details. Please check your input and try again.">>

RatesErrorMessage ==
    <<"An error occurred while fetching shipping rates. Please try again later or contact support.">>

\* the POST of app.py:95-115; the token is sent whatever its value
RatesCall(origin, destination, weight, length, width, height) ==
    [api |-> "shippo_rates", token |-> SHIPPO_API_KEY,
     address_from |-> origin, address_to |-> destination,
     parcels |-> <<[length |-> PyStr(length), width |-> PyStr(width),
                    height |-> PyStr(height), distance_unit |-> "in",
                    weight |-> PyStr(weight), mass_unit |-> "lb"]>>,
     async |-> FALSE]

\* app.py:119-125 on the decoded body
FormatRates(data) ==
    IF "rates" \in DOMAIN data /\ Len(data.rates) > 0
    THEN LET shown == TopRates(data.rates)
         IN  IF \E i \in 1..Len(shown) : ~(RateFields \subseteq DOMAIN shown[i])
             THEN [kind |-> "raise", value |-> <<"KeyError">>]
             ELSE [kind |-> "return",
                   value |-> <<"Available shipping rates:", NL>>
                             \o JoinLines([i \in 1..Len(shown) |-> RateLine(shown[i])])]
    ELSE [kind |-> "return", value |-> NoRatesMessage]

get_shipping_rates(origin, destination, weight, length, width, height, outcome) ==
    LET call == RatesCall(origin, destination, weight, length, width, height)
    IN  IF outcome.kind \in RequestExceptions
        THEN [kind |-> "return", value |-> RatesErrorMessage, calls |-> <<call>>]
        ELSE IF outcome.kind = "ValueError"
        THEN [kind |-> "raise", value |-> <<"ValueError">>, calls |-> <<call>>]
        ELSE [kind |-> FormatRates(outcome.body).kind,
              value |-> FormatRates(outcome.body).value,
              calls |-> <<call>>]

-----------------------------------------------------------------------------
(* track_shipment, app.py:130-150 *)

TrackingUnavailableMessage ==
    <<"Shipment tracking is currently unavailable. Please try again later or contact support.">>

TrackingErrorMessage ==
    <<"An error occurred while tracking the shipment. Please try again later or contact support.">>

\* the GET of app.py:134-138
TrackCall(tracking_number, carrier) ==
    [api |-> "shippo_track", token |-> SHIPPO_API_KEY,
     carrier |-> carrier, tracking_number |-> tracking_number]

\* app.py:142-147 on the decoded body: the subscripts in the order the code
\* evaluates them
FormatTracking(info) ==
    IF "tracking_status" \notin DOMAIN info
    THEN [kind |-> "raise", value |-> <<"KeyError">>]
    ELSE IF IsNull(info.tracking_status)
    THEN [kind |-> "raise", value |-> <<"TypeError">>]
    ELSE IF "status" \notin DOMAIN info.tracking_status
    THEN [kind |-> "raise", value |-> <<"KeyError">>]
    ELSE IF "location" \notin DOMAIN info.tracking_status
    THEN [kind |-> "raise", value |-> <<"KeyError">>]
    ELSE IF IsNull(info.tracking_status.location)
    THEN [kind |-> "raise", value |-> <<"TypeError">>]
    ELSE IF "city" \notin DOMAIN info.tracking_status.location
    THEN [kind |-> "raise", value |-> <<"KeyError">>]
    ELSE IF "country" \notin DOMAIN info.tracking_status.location
    THEN [kind |-> "raise", value |-> <<"KeyError">>]
    ELSE LET status == info.tracking_status.status
             location == info.tracking_status.location.city
             country == info.tracking_status.location.country
             eta == IF "eta" \in DOMAIN info THEN info.eta ELSE "Not available"
         IN  [kind |-> "return",
              value |-> <<"Tracking Status: ", status, NL,
                          "Current Location: ", location, ", ", country, NL,
                          "Estimated Delivery: ", eta>>]

\* a credential check that always passes
ShippoConfiguredAlways == TRUE

\* "if not SHIPPO_API_KEY" of app.py:131, negated
ShippoConfigured == Truthy(SHIPPO_API_KEY)

track_shipment(tracking_number, carrier, outcome) ==
    IF ~ShippoConfigured
    THEN [kind |-> "return", value |-> TrackingUnavailableMessage, calls |-> <<>>]
    ELSE LET call == TrackCall(tracking_number, carrier)
         IN  IF outcome.kind \in RequestExceptions
             THEN [kind |-> "return", value |-> TrackingErrorMessage,
                   calls |-> <<call>>]
             ELSE IF outcome.kind = "ValueError"
             THEN [kind |-> "raise", value |-> <<"ValueError">>,
                   calls |-> <<call>>]
             ELSE [kind |-> FormatTracking(outcome.body).kind,
                   value |-> FormatTracking(outcome.body).value,
                   calls |-> <<call>>]

-----------------------------------------------------------------------------
(* The page, app.py:152-288 *)

Pages == {"Home", "Tools", "Contact"}

Tools == {"Shipping Rates Calculator", "Shipment Tracker",
          "Trucking Information", "Freight Forwarding Guide"}

\* the first option of the selectbox
DefaultTool == "Shipping Rates Calculator"

Carriers == {"usps", "fedex", "ups"}

NoResult == [kind |-> "none", value |-> <<>>]

NoArgs == [none |-> TRUE]

\* a list operation that drops what was there before
ReplaceByMessage(history, role, content) ==
    <<[role |-> role, content |-> content]>>

\* st.session_state.chat_history.append({"role": ..., "content": ...})
AppendMessage(history, role, content) ==
    Append(history, [role |-> role, content |-> content])

\* the emoji that opens every reply of app.py:156
RobotFace == "U+1F916"

\* get_chatbot_response, app.py:152-156; session_history is
\* st.session_state.chat_history at the time of the call
get_chatbot_response(user_input, session_history, response_timestamp, outcome) ==
    LET response == get_enhanced_chatbot_response(user_input, session_history, outcome)
    IN  IF response.kind = "raise"
        THEN response
        ELSE [kind |-> "return",
              value |-> <<RobotFace, " ">> \o response.value
                        \o <<" (sent at ", response_timestamp, ")">>,
              calls |-> response.calls]

\* the f-strings of app.py:252 and app.py:260
TruckingPrompt(trucking_query) ==
    <<"P","r","o","v","i","d","e"," ","i","n","f","o","r","m","a","t","i","o","n"," ","a","b","o","u","t"," ">>
    \o trucking_query
    \o <<" ","i","n"," ","t","h","e"," ","c","o","n","t","e","x","t"," ","o","f"," ","t","r","u","c","k","i","n","g"," ","a","n","d"," ","t","r","a","n","s","p","o","r","t","a","t","i","o","n",".">>

FreightPrompt(freight_query) ==
    <<"P","r","o","v","i","d","e"," ","i","n","f","o","r","m","a","t","i","o","n"," ","a","b","o","u","t"," ">>
    \o freight_query
    \o <<" ","i","n"," ","t","h","e"," ","c","o","n","t","e","x","t"," ","o","f"," ","f","r","e","i","g","h","t"," ","f","o","r","w","a","r","d","i","n","g",".">>

-----------------------------------------------------------------------------
(* Inputs *)

\* os.getenv: unset, set to the empty string, set to a token
KeyValues == {PyNone, "", "token"}

\* datetime.now().strftime("%Y-%m-%d %H:%M:%S")
Timestamps == {"2024-05-01 09:30:00", "2024-05-01 09:30:01"}

\* what the user types into the chat box; the first is the empty box
UIInputs ==
    { <<>>,
      <<"C","u","s","t","o","m","s","?">> }

UIChatOutcomes ==
    { [kind |-> "ConnectionError"],
      [kind |-> "ok", body |-> ChatBody(LLMReplyA)],
      [kind |-> "ok", body |-> [id |-> "chatcmpl"]] }

UIQueries == { <<>>, <<"L","T","L">> }

RateUSPS == [provider |-> "USPS", amount |-> "7.58", duration_terms |-> "1-3 days"]
RateUPS == [provider |-> "UPS", amount |-> "12.40", duration_terms |-> "Next day"]
\* an entry the backend sent without its duration_terms
RatePartial == [provider |-> "DHL", amount |-> "9.99"]

RateEntries == {RateUSPS, RateUPS, RatePartial}

RECURSIVE SeqsUpTo(_, _)
SeqsUpTo(S, n) ==
    IF n = 0 THEN {<<>>}
    ELSE LET shorter == SeqsUpTo(S, n - 1)
         IN  shorter \cup {Append(q, x) : q \in shorter, x \in S}

RatesBody(rates) == [object_id |-> "shp", rates |-> rates]

RatesOutcomes ==
    Failures
    \cup {[kind |-> "ok", body |-> [object_id |-> "shp"]]}
    \cup {[kind |-> "ok", body |-> RatesBody(r)] : r \in SeqsUpTo(RateEntries, MaxRates)}

UIRatesOutcomes ==
    { [kind |-> "HTTPError"],
      [kind |-> "ok", body |-> RatesBody(<<RateUSPS, RateUPS>>)] }

Location == [city |-> "Memphis", country |-> "US"]

TrackingBodies ==
    { [carrier |-> "usps", eta |-> "2024-05-03",
       tracking_status |-> [status |-> "TRANSIT", location |-> Location]],
      [carrier |-> "usps",
       tracking_status |-> [status |-> "DELIVERED", location |-> Location]] }

\* 2xx bodies that lack a field the code subscripts
MalformedTrackingBodies ==
    { [carrier |-> "usps"],
      [carrier |-> "usps", tracking_status |-> JsonNull],
      [carrier |-> "usps", tracking_status |-> [location |-> Location]],
      [carrier |-> "usps", tracking_status |-> [status |-> "UNKNOWN"]],
      [carrier |-> "usps",
       tracking_status |-> [status |-> "UNKNOWN", location |-> JsonNull]],
      [carrier |-> "usps",
       tracking_status |-> [status |-> "TRANSIT", location |-> [country |-> "US"]]],
      [carrier |-> "usps",
       tracking_status |-> [status |-> "TRANSIT", location |-> [city |-> "Memphis"]]] }

TrackOutcomes ==
    Failures
    \cup {[kind |-> "ok", body |-> b] : b \in TrackingBodies \cup MalformedTrackingBodies}

UITrackOutcomes ==
    { [kind |-> "Timeout"],
      [kind |-> "ok", body |-> [carrier |-> "usps"]] }
    \cup {[kind |-> "ok", body |-> b] : b \in TrackingBodies}

TrackingNumbers == { <<>>, <<"9","4","0","0">> }

Origin == [name |-> "A", street1 |-> "1 Main St", city |-> "Austin",
           state |-> "TX", zip |-> "78701", country |-> "US"]

Destination == [name |-> "B", street1 |-> "2 Oak Ave", city |-> "Boston",
                state |-> "MA", zip |-> "02108", country |-> "US"]

\* the form's default parcel, in tenths: weight 1.0, sides 10.0
DefaultWeight == 10
DefaultSide == 100

-----------------------------------------------------------------------------
(* The session *)

Init ==
    /\ GROQ_API_KEY \in KeyValues
    /\ SHIPPO_API_KEY \in KeyValues
    /\ chat_history = <<>>
    /\ page = "Home"
    /\ tool_choice = DefaultTool
    /\ op = "start"
    /\ args = NoArgs
    /\ net_calls = <<>>
    /\ result = NoResult

\* the sidebar radio
Navigate ==
    \E p \in Pages \ {page} :
        /\ page' = p
        /\ tool_choice' = DefaultTool
        /\ op' = "Navigate"
        /\ args' = NoArgs
        /\ net_calls' = <<>>
        /\ result' = NoResult
        /\ UNCHANGED <<GROQ_API_KEY, SHIPPO_API_KEY, chat_history>>

\* the selectbox of the Tools page
SelectTool ==
    /\ page = "Tools"
    /\ \E t \in Tools \ {tool_choice} :
           /\ tool_choice' = t
           /\ op' = "SelectTool"
           /\ args' = NoArgs
           /\ net_calls' = <<>>
           /\ result' = NoResult
           /\ UNCHANGED <<GROQ_API_KEY, SHIPPO_API_KEY, chat_history, page>>

\* the Send button, app.py:179-184
Send ==
    /\ page = "Home"
    /\ Len(chat_history) + 2 <= MaxHistory
    /\ \E user_input \in UIInputs, ts \in Timestamps, outcome \in UIChatOutcomes :
           /\ op' = "Send"
           /\ args' = [user_input |-> user_input, history_before |-> chat_history,
                       outcome |-> outcome]
           /\ IF user_input = <<>>
              THEN /\ chat_history' = chat_history
                   /\ net_calls' = <<>>
                   /\ result' = NoResult
              ELSE LET with_user == AppendMessage(chat_history, "user", user_input)
                       bot_response == get_chatbot_response(user_input, with_user, ts, outcome)
                   IN  /\ net_calls' = bot_response.calls
                       /\ result' = [kind |-> bot_response.kind,
                                     value |-> bot_response.value]
                       /\ chat_history' =
                             IF bot_response.kind = "raise"
                             THEN with_user
                             ELSE AppendMessage(with_user, "assistant", bot_response.value)
           /\ UNCHANGED <<GROQ_API_KEY, SHIPPO_API_KEY, page, tool_choice>>

\* the Clear Chat History button, app.py:186-188
ClearChat ==
    /\ page = "Home"
    /\ chat_history' = <<>>
    /\ op' = "ClearChat"
    /\ args' = NoArgs
    /\ net_calls' = <<>>
    /\ result' = NoResult
    /\ UNCHANGED <<GROQ_API_KEY, SHIPPO_API_KEY, page, tool_choice>>

\* what a tool button leaves behind
ToolRan(name, a, r) ==
    /\ op' = name
    /\ args' = a
    /\ net_calls' = r.calls
    /\ result' = [kind |-> r.kind, value |-> r.value]
    /\ UNCHANGED <<GROQ_API_KEY, SHIPPO_API_KEY, chat_history, page, tool_choice>>

\* the Calculate Shipping Rates button, app.py:232-235
CalculateRates ==
    /\ page = "Tools"
    /\ tool_choice = "Shipping Rates Calculator"
    /\ \E outcome \in UIRatesOutcomes :
           /\ ToolRan("get_shipping_rates", [outcome |-> outcome],
                      get_shipping_rates(Origin, Destination, DefaultWeight,
                                         DefaultSide, DefaultSide, DefaultSide, outcome))

\* the Track Shipment button, app.py:242-245
TrackShipment ==
    /\ page = "Tools"
    /\ tool_choice = "Shipment Tracker"
    /\ \E tracking_number \in TrackingNumbers, carrier \in Carriers,
          outcome \in UITrackOutcomes :
           /\ ToolRan("track_shipment",
                      [tracking_number |-> tracking_number, carrier |-> carrier,
                       outcome |-> outcome],
                      track_shipment(tracking_number, carrier, outcome))

\* the Get Trucking Info button, app.py:250-253
TruckingInfo ==
    /\ page = "Tools"
    /\ tool_choice = "Trucking Information"
    /\ \E trucking_query \in UIQueries, outcome \in UIChatOutcomes :
           /\ ToolRan("get_enhanced_chatbot_response",
                      [user_input |-> TruckingPrompt(trucking_query),
                       chat_history |-> <<>>, outcome |-> outcome],
                      get_enhanced_chatbot_response(TruckingPrompt(trucking_query),
                                                    <<>>, outcome))

\* the Get Freight Forwarding Info button, app.py:258-261
FreightInfo ==
    /\ page = "Tools"
    /\ tool_choice = "Freight Forwarding Guide"
    /\ \E freight_query \in UIQueries, outcome \in UIChatOutcomes :
           /\ ToolRan("get_enhanced_chatbot_response",
                      [user_input |-> FreightPrompt(freight_query),
                       chat_history |-> <<>>, outcome |-> outcome],
                      get_enhanced_chatbot_response(FreightPrompt(freight_query),
                                                    <<>>, outcome))

\* the Send Message button of the Contact page, app.py:287-288
SendMessage ==
    /\ page = "Contact"
    /\ op' = "SendMessage"
    /\ args' = NoArgs
    /\ net_calls' = <<>>
    /\ result' = [kind |-> "return",
                  value |-> <<"Thank you for your message. We'll get back to you shortly!">>]
    /\ UNCHANGED <<GROQ_API_KEY, SHIPPO_API_KEY, chat_history, page, tool_choice>>

Next ==
    \/ Navigate
    \/ SelectTool
    \/ Send
    \/ ClearChat
    \/ CalculateRates
    \/ TrackShipment
    \/ TruckingInfo
    \/ FreightInfo
    \/ SendMessage

Spec == Init /\ [][Next]_vars

-----------------------------------------------------------------------------
(* The functions called directly on wider inputs: one call from the state *)
(* after start-up                                                         *)

Fillers ==
    { <<"h","i"," ">>,
      <<" ","r","a","t","e","s","?">>,
      <<"t","r","a","c","k"," ","m","y"," ","s","h","i","p","m","e","n","t">> }

TopicPhrases == {logistics_topics[i].topic : i \in DOMAIN logistics_topics}

\* a phrase with its first letter in upper case
Capitalized(s) == <<UpperChar(s[1])>> \o Tail(s)

Chunks ==
    TopicPhrases
    \cup {Upper(t) : t \in TopicPhrases}
    \cup {Capitalized(Topic_trucking), Capitalized(Topic_insurance)}
    \cup Fillers

RECURSIVE ChunkTexts(_)
ChunkTexts(n) ==
    IF n = 0 THEN {<<>>}
    ELSE LET shorter == ChunkTexts(n - 1)
         IN  shorter \cup {t \o c : t \in shorter, c \in Chunks}

FallbackInputs == ChunkTexts(MaxChunks)

FnUserInputs ==
    { <<"h","i">>,
      <<"F","R","E","I","G","H","T"," ","f","o","r","w","a","r","d","i","n","g">> }

FnMessages ==
    { [role |-> "user", content |-> <<"h","i">>],
      [role |-> "assistant", content |-> LLMReplyB] }

FnHistories == SeqsUpTo(FnMessages, MaxFnHistory)

\* what a direct call leaves behind
Called(name, a, r) ==
    /\ op' = name
    /\ args' = a
    /\ net_calls' = r.calls
    /\ result' = [kind |-> r.kind, value |-> r.value]
    /\ UNCHANGED <<GROQ_API_KEY, SHIPPO_API_KEY, chat_history, page, tool_choice>>

CallFallback ==
    /\ op = "start"
    /\ \E user_input \in FallbackInputs :
           Called("get_fallback_response", [user_input |-> user_input],
                  [kind |-> "return", value |-> get_fallback_response(user_input),
                   calls |-> <<>>])

CallGetResponse ==
    /\ op = "start"
    /\ \E user_input \in FnUserInputs, history \in FnHistories, outcome \in ChatOutcomes :
           Called("get_enhanced_chatbot_response",
                  [user_input |-> user_input, chat_history |-> history,
                   outcome |-> outcome],
                  get_enhanced_chatbot_response(user_input, history, outcome))

CallGetRates ==
    /\ op = "start"
    /\ \E outcome \in RatesOutcomes :
           Called("get_shipping_rates", [outcome |-> outcome],
                  get_shipping_rates(Origin, Destination, DefaultWeight,
                                     DefaultSide, DefaultSide, DefaultSide, outcome))

CallTrack ==
    /\ op = "start"
    /\ \E tracking_number \in TrackingNumbers, carrier \in Carriers,
          outcome \in TrackOutcomes :
           Called("track_shipment",
                  [tracking_number |-> tracking_number, carrier |-> carrier,
                   outcome |-> outcome],
                  track_shipment(tracking_number, carrier, outcome))

FnNext ==
    \/ CallFallback
    \/ CallGetResponse
    \/ CallGetRates
    \/ CallTrack

FnSpec == Init /\ [][FnNext]_vars

-----------------------------------------------------------------------------
(* Properties *)

IsPrefix(s, t) == Len(s) <= Len(t) /\ SubSeq(t, 1, Len(s)) = s

MinOf(S) == CHOOSE i \in S : \A j \in S : i <= j

\* the phrase occurs in the text when letter case is ignored
OccursIgnoringCase(phrase, text) ==
    \E i \in 1..(Len(text) - Len(phrase) + 1) :
        \A k \in 1..Len(phrase) : LowerChar(text[i + k - 1]) = phrase[k]

\* the table entries whose phrase occurs in the text
MatchingTopics(text) ==
    {i \in DOMAIN logistics_topics :
        OccursIgnoringCase(logistics_topics[i].topic, text)}

\* the table order the fallback is documented with
DocumentedOrder ==
    <<Topic_shipping_rates, Topic_track_shipment, Topic_trucking,
      Topic_freight_forwarding, Topic_customs, Topic_packaging,
      Topic_insurance, Topic_international_shipping, Topic_warehousing,
      Topic_last_mile_delivery>>

\* C1: when the input contains one or more topic phrases, in any letter
\* case and with any text around them, get_fallback_response returns
\* exactly the canned response of the first such topic in table order
\* (shipping rates, track shipment, ..., last-mile delivery).
C1_FallbackFirstMatch ==
    (op = "get_fallback_response" /\ MatchingTopics(args.user_input) # {}) =>
        /\ result.kind = "return"
        /\ result.value =
              logistics_topics[MinOf(MatchingTopics(args.user_input))].response
        /\ [i \in DOMAIN logistics_topics |-> logistics_topics[i].topic]
              = DocumentedOrder

\* C1 witness: an input with upper-case letters that contains several
\* topics, of which the first to occur in the text is not the first in the
\* table, answered with the response of the first in the table
C1_Witness ==
    /\ op = "get_fallback_response"
    /\ args.user_input # Lower(args.user_input)
    /\ MatchingTopics(args.user_input) = {1, 8}
    /\ OccursIgnoringCase(Topic_international_shipping,
                          SubSeq(args.user_input, 1, Len(Topic_international_shipping)))
    /\ result.value = logistics_topics[1].response

\* the one chat call failed: a transport error, a timeout, a non-2xx
\* status, or a 2xx body without choices[0].message.content (a body that
\* is not JSON at all is left out: which exception it raises depends on
\* the release of requests)
ChatCallFailed(outcome) ==
    \/ outcome.kind \in {"ConnectionError", "Timeout", "HTTPError"}
    \/ outcome.kind = "ok" /\ outcome.body \in MalformedChatBodies

\* C2: with a chat credential configured, whenever the single call to the
\* chat backend fails in any way, get_enhanced_chatbot_response returns
\* exactly get_fallback_response(user_input), never raises, and has made
\* exactly one call.
C2_ChatFailureFallsBack ==
    (/\ op = "get_enhanced_chatbot_response"
     /\ Truthy(GROQ_API_KEY)
     /\ ChatCallFailed(args.outcome)) =>
        /\ result.kind = "return"
        /\ result.value = get_fallback_response(args.user_input)
        /\ Len(net_calls) = 1

\* C3: with no chat credential configured, get_enhanced_chatbot_response
\* returns the text of get_fallback_response(user_input) for every input
\* and history and issues no call to the chat backend.
C3_NoCredentialFallsBack ==
    (op = "get_enhanced_chatbot_response" /\ ~Truthy(GROQ_API_KEY)) =>
        /\ result.kind = "return"
        /\ result.value = get_fallback_response(args.user_input)
        /\ net_calls = <<>>

\* C3 witness: no credential, a non-empty history, a backend that would
\* have answered, and the freight forwarding answer of the table returned
C3_Witness ==
    /\ op = "get_enhanced_chatbot_response"
    /\ GROQ_API_KEY = PyNone
    /\ Len(args.chat_history) > 0
    /\ args.outcome.kind = "ok"
    /\ result.value = logistics_topics[4].response
    /\ net_calls = <<>>

\* C4: with a credential configured, the messages sent for a history of
\* length n are the system message, the last min(n,5) history messages in
\* their order with role and content unchanged, and the user message with
\* user_input: min(n,5)+2 messages, none older than the last 5.
C4_RequestWindow ==
    (op = "get_enhanced_chatbot_response" /\ Truthy(GROQ_API_KEY)) =>
        /\ Len(net_calls) = 1
        /\ LET sent == net_calls[1].messages
               h == args.chat_history
               n == Len(h)
               k == IF n < 5 THEN n ELSE 5
           IN  /\ Len(sent) = k + 2
               /\ sent[1] = SystemMessage
               /\ \A j \in 1..k : sent[1 + j] = h[n - k + j]
               /\ sent[k + 2] = [role |-> "user", content |-> args.user_input]

\* C4 witness: a 7-message history whose two oldest messages differ from
\* the two that follow, sent as 7 messages
C4_Witness ==
    /\ op = "get_enhanced_chatbot_response"
    /\ Truthy(GROQ_API_KEY)
    /\ Len(args.chat_history) = 7
    /\ args.chat_history[1] # args.chat_history[3]
    /\ args.chat_history[2] # args.chat_history[4]
    /\ Len(net_calls) = 1
    /\ Len(net_calls[1].messages) = 7

\* the lines of a text: its pieces between newlines
RECURSIVE SplitLines(_)
SplitLines(text) ==
    IF \A i \in 1..Len(text) : text[i] # NL
    THEN <<text>>
    ELSE LET i == MinOf({j \in 1..Len(text) : text[j] = NL})
         IN  <<SubSeq(text, 1, i - 1)>>
             \o SplitLines(SubSeq(text, i + 1, Len(text)))

\* C5: for a successful response whose rates array has n >= 1 entries (the
\* first min(n,5) of them carrying provider, amount and duration_terms),
\* get_shipping_rates returns the header line followed by exactly min(n,5)
\* lines "<provider> - $<amount> (<duration_terms>)", one per entry in the
\* backend's order; entries after the fifth never appear.
C5_TopFiveRates ==
    (/\ op = "get_shipping_rates"
     /\ args.outcome.kind = "ok"
     /\ "rates" \in DOMAIN args.outcome.body
     /\ Len(args.outcome.body.rates) >= 1
     /\ \A i \in 1..Len(args.outcome.body.rates) :
            i <= 5 => RateFields \subseteq DOMAIN args.outcome.body.rates[i]) =>
        /\ result.kind = "return"
        /\ LET rates == args.outcome.body.rates
               n == Len(rates)
               k == IF n < 5 THEN n ELSE 5
               lines == SplitLines(result.value)
           IN  /\ Len(lines) = k + 1
               /\ lines[1] = <<"Available shipping rates:">>
               /\ \A j \in 1..k :
                      lines[1 + j] = <<rates[j].provider, " - $", rates[j].amount,
                                       " (", rates[j].duration_terms, ")">>

\* C5 witness: 7 entries, the sixth of another carrier than the first five,
\* listed on exactly 5 lines after the header
C5_Witness ==
    /\ op = "get_shipping_rates"
    /\ args.outcome.kind = "ok"
    /\ "rates" \in DOMAIN args.outcome.body
    /\ Len(args.outcome.body.rates) = 7
    /\ \A i \in 1..5 : args.outcome.body.rates[i] = RateUSPS
    /\ args.outcome.body.rates[6] = RateUPS
    /\ result.kind = "return"
    /\ Len(SplitLines(result.value)) = 6

\* C6: with no shipping credential configured, track_shipment returns the
\* fixed "unavailable" message for every tracking number and carrier and
\* makes no network call; a tracking call is only ever made with the
\* credential configured.
C6_TrackingNeedsCredential ==
    /\ (op = "track_shipment" /\ ~Truthy(SHIPPO_API_KEY)) =>
           /\ result = [kind |-> "return", value |-> TrackingUnavailableMessage]
           /\ net_calls = <<>>
    /\ \A i \in 1..Len(net_calls) :
           net_calls[i].api = "shippo_track" => Truthy(SHIPPO_API_KEY)

\* C6 witness: the variable set to the empty string, a backend that would
\* have answered, the "unavailable" message and no call
C6_Witness ==
    /\ op = "track_shipment"
    /\ SHIPPO_API_KEY = ""
    /\ args.outcome.kind = "ok"
    /\ args.outcome.body \in TrackingBodies
    /\ result.value = TrackingUnavailableMessage
    /\ net_calls = <<>>

\* the tracking lookup failed: a transport or HTTP failure, or a 2xx body
\* that lacks an expected field
TrackingFailed(outcome) ==
    \/ outcome.kind \in {"ConnectionError", "Timeout", "HTTPError"}
    \/ outcome.kind = "ok" /\ outcome.body \in MalformedTrackingBodies

\* C7: with a shipping credential configured, every failing outcome of
\* track_shipment ends with the fixed tracking-error message returned as
\* text, never in an exception.
C7_TrackingFailureMessage ==
    (/\ op = "track_shipment"
     /\ Truthy(SHIPPO_API_KEY)
     /\ TrackingFailed(args.outcome)) =>
        result = [kind |-> "return", value |-> TrackingErrorMessage]

\* C8: under every action of the page the chat history before the action
\* is a prefix of the chat history after it.
C8_AppendOnly == [][IsPrefix(chat_history, chat_history')]_vars

\* C8 as amended: under every action of the page other than Clear Chat
\* History the chat history before the action is a prefix of the chat
\* history after it; Clear Chat History leaves the history empty.
C8_AppendOnlyUntilCleared ==
    [][/\ op' # "ClearChat" => IsPrefix(chat_history, chat_history')
       /\ op' = "ClearChat" => chat_history' = <<>>]_vars

\* C8 witness: a Send on a history of four or more messages that kept them
\* and added to them
C8_Witness ==
    /\ op = "Send"
    /\ Len(args.history_before) >= 4
    /\ IsPrefix(args.history_before, chat_history)
    /\ Len(chat_history) > Len(args.history_before)

\* C9: between actions the chat history has even length and alternates
\* user, assistant from a user message on, whatever the chat backend did;
\* a Send with empty input leaves the history as it was.
C9_AlternatingHistory ==
    /\ Len(chat_history) % 2 = 0
    /\ \A i \in 1..Len(chat_history) :
           chat_history[i].role = IF i % 2 = 1 THEN "user" ELSE "assistant"
    /\ (op = "Send" /\ args.user_input = <<>>) =>
           chat_history = args.history_before

\* C10: for a Send with non-empty input and a chat credential configured,
\* the request holds the typed input as exactly one message, the last one,
\* after the up-to-5 most recent messages the history had before the Send.
C10_SendRequest ==
    (op = "Send" /\ args.user_input # <<>> /\ Truthy(GROQ_API_KEY)) =>
        /\ Len(net_calls) = 1
        /\ net_calls[1].messages =
              <<SystemMessage>>
              \o LastN(args.history_before, 5)
              \o <<[role |-> "user", content |-> args.user_input]>>

====
